---- MODULE Spec2Model ----
(***************************************************************************)
(* KZG polynomial commitments, coefficient form: KZGProver and KZGVerifier  *)
(* of src/src/lib.rs over a toy pairing engine.                             *)
(*                                                                          *)
(* The pairing engine E is external.  It is modelled by the standard toy    *)
(* instance of a bilinear group of prime order: a group element is          *)
(* represented by its discrete logarithm to the base g (G1), h (G2) or      *)
(* e(g, h) (GT), so the group law is addition modulo the group order,       *)
(* scalar multiplication is multiplication modulo the order, and the        *)
(* pairing multiplies the two logarithms.  The scalar field E::Fr is the    *)
(* prime field of the same order.                                           *)
(***************************************************************************)
EXTENDS Integers, Sequences, FiniteSets, TLC

\* Order of the scalar field E::Fr and of the groups G1, G2, GT (a prime).
Modulus == 3

\* The largest const parameter MAX_DEGREE the model instantiates.
MaxDegreeBound == 2

VARIABLES
    MAX_DEGREE,     \* the const generic parameter of KZGParams/KZGProver/KZGVerifier
    secret,         \* the setup secret (ghost: no operation reads it)
    parameters,     \* KZGParams shared by the prover and the verifier
    polynomial,     \* KZGProver.polynomial : Option<Polynomial>
    commitment,     \* KZGProver.commitment : Option<KZGCommitment>
    batch_witness,  \* KZGProver.batch_witness : Option<G1>
    witnesses,      \* KZGProver.witnesses : [Option<G1Affine>; MAX_DEGREE]
    ret,            \* the last call: its name, arguments and returned value
    lastP,          \* the polynomial passed to the most recent commit
    lastC,          \* the value returned by the most recent commit
    lastW,          \* the most recent witness returned for the stored polynomial
    pc              \* "ready", or "panicked" once a call has panicked

vars == <<MAX_DEGREE, secret, parameters, polynomial, commitment,
          batch_witness, witnesses, ret, lastP, lastC, lastW, pc>>

prover == <<polynomial, commitment, batch_witness, witnesses>>

(***************************************************************************)
(* Option and Result                                                        *)
(***************************************************************************)
None == [tag |-> "None"]
Some(v) == [tag |-> "Some", val |-> v]
Ok(v) == [kind |-> "Ok", val |-> v]
Err(e) == [kind |-> "Err", err |-> e]
Panic == [kind |-> "Panic"]

(***************************************************************************)
(* The scalar field E::Fr                                                   *)
(***************************************************************************)
Fr == 0 .. (Modulus - 1)
FrZero == 0
FrOne == 1 % Modulus
FrAdd(a, b) == (a + b) % Modulus
FrSub(a, b) == (a - b) % Modulus
FrNeg(a) == (0 - a) % Modulus
FrMul(a, b) == (a * b) % Modulus
FrInv(a) == CHOOSE b \in Fr : FrMul(a, b) = FrOne

(***************************************************************************)
(* The groups G1, G2, GT and the pairing                                    *)
(***************************************************************************)
G1 == 0 .. (Modulus - 1)
G2 == 0 .. (Modulus - 1)
G1Identity == 0
G1Generator == 1 % Modulus
G2Generator == 1 % Modulus
G1Add(P, Q) == (P + Q) % Modulus
G1Sub(P, Q) == (P - Q) % Modulus
G1Mul(P, s) == (P * s) % Modulus
G2Add(P, Q) == (P + Q) % Modulus
G2Mul(P, s) == (P * s) % Modulus
\* affine <-> projective: two encodings of one group element
to_affine(P) == P
to_curve(P) == P
pairing(P, Q) == (P * Q) % Modulus

(***************************************************************************)
(* Polynomial<E, MAX_DEGREE>: a fixed array of MAX_DEGREE coefficients      *)
(* (index i is the coefficient of X^i) and a declared degree.               *)
(***************************************************************************)
Array(n, S) == [0 .. (n - 1) -> S]

new_from_coeffs(coeffs, degree) == [coeffs |-> coeffs, degree |-> degree]

\* Horner evaluation over the first n coefficients.
RECURSIVE horner(_, _, _)
horner(coeffs, n, x) ==
    IF n = 0 THEN FrZero
    ELSE LET i == Cardinality(DOMAIN coeffs) - n
         IN FrAdd(coeffs[i], FrMul(x, horner(coeffs, n - 1, x)))

eval(p, x) == horner(p.coeffs, Cardinality(DOMAIN p.coeffs), x)

IsZero(coeffs) == \A i \in DOMAIN coeffs : coeffs[i] = FrZero

\* One step per quotient coefficient, from the highest (k) down to 0.
RECURSIVE div_loop(_, _, _, _)
div_loop(rem, quot, divisor, k) ==
    IF k < 0 THEN <<quot, rem>>
    ELSE LET dd == divisor.degree
             t == FrMul(rem[k + dd], FrInv(divisor.coeffs[dd]))
             rem2 == [i \in DOMAIN rem |->
                        IF i >= k /\ i - k <= dd
                        THEN FrSub(rem[i], FrMul(t, divisor.coeffs[i - k]))
                        ELSE rem[i]]
         IN div_loop(rem2, [quot EXCEPT ![k] = t], divisor, k - 1)

\* (quotient, Option<remainder>)
long_division(dividend, divisor) ==
    LET n == Cardinality(DOMAIN dividend.coeffs)
        k == dividend.degree - divisor.degree
        qr == div_loop(dividend.coeffs, [i \in 0 .. (n - 1) |-> FrZero], divisor, k)
        qdeg == IF k < 0 THEN 0 ELSE k
    IN <<new_from_coeffs(qr[1], qdeg),
         IF IsZero(qr[2]) THEN None
         ELSE Some(new_from_coeffs(qr[2], divisor.degree - 1))>>

\* The polynomials a caller can hand to the prover or the verifier.
Polynomials(n) == {new_from_coeffs(c, n - 1) : c \in Array(n, Fr)}

(***************************************************************************)
(* Setup                                                                    *)
(***************************************************************************)
RECURSIVE FrPow(_, _)
FrPow(a, n) == IF n = 0 THEN FrOne ELSE FrMul(a, FrPow(a, n - 1))

setup(s, max_degree) ==
    [g |-> G1Generator,
     h |-> G2Generator,
     gs |-> [i \in 0 .. (max_degree - 1) |-> G1Mul(G1Generator, FrPow(s, i + 1))],
     hs |-> [i \in 0 .. (max_degree - 1) |-> G2Mul(G2Generator, FrPow(s, i + 1))]]

(***************************************************************************)
(* KZGProver                                                                *)
(***************************************************************************)
\* Mutant of new: the prover starts with the zero polynomial stored.
new_zero_polynomial(n) ==
    [polynomial |-> Some(new_from_coeffs([i \in 0 .. (n - 1) |-> FrZero], 0)),
     commitment |-> None,
     batch_witness |-> None,
     witnesses |-> [i \in 0 .. (n - 1) |-> None]]

new(n) ==
    [polynomial |-> None,
     commitment |-> None,
     batch_witness |-> None,
     witnesses |-> [i \in 0 .. (n - 1) |-> None]]

\* Mutant of commit_loop: every coefficient is paired with g.
RECURSIVE commit_loop_always_g(_, _, _)
commit_loop_always_g(params, coeffs, n) ==
    IF n = 0 THEN G1Identity
    ELSE G1Add(commit_loop_always_g(params, coeffs, n - 1),
               G1Mul(params.g, coeffs[n - 1]))

\* commit's accumulation over coeffs[0 .. n-1]
RECURSIVE commit_loop(_, _, _)
commit_loop(params, coeffs, n) ==
    IF n = 0 THEN G1Identity
    ELSE LET i == n - 1
         IN G1Add(commit_loop(params, coeffs, i),
                  IF i = 0 THEN G1Mul(params.g, coeffs[i])
                  ELSE G1Mul(params.gs[i - 1], coeffs[i]))

Snapshot == [polynomial |-> polynomial, lastW |-> lastW]

commit(p) ==
    /\ pc = "ready"
    /\ LET acc == commit_loop(parameters, p.coeffs, Cardinality(DOMAIN p.coeffs))
           C == to_affine(acc)
       IN /\ polynomial' = Some(p)
          /\ ret' = [op |-> "commit", args |-> p, result |-> C, before |-> Snapshot]
          /\ lastP' = Some(p)
          /\ lastC' = Some(C)
          /\ lastW' = None
    /\ UNCHANGED <<MAX_DEGREE, secret, parameters, commitment, batch_witness,
                   witnesses, pc>>

open ==
    /\ pc = "ready"
    /\ ret' = [op |-> "open", args |-> <<>>,
               result |-> IF polynomial = None THEN Err("NoPolynomial")
                          ELSE Ok(polynomial.val),
               before |-> Snapshot]
    /\ UNCHANGED <<MAX_DEGREE, secret, parameters, prover, lastP, lastC, lastW, pc>>

\* create_witness's accumulation over psi.coeffs[0 .. n-1]
RECURSIVE witness_loop(_, _, _)
witness_loop(params, coeffs, n) ==
    IF n = 0 THEN G1Identity
    ELSE LET i == n - 1
         IN G1Add(witness_loop(params, coeffs, i),
                  IF i = 0 THEN G1Mul(params.g, coeffs[i])
                  ELSE G1Mul(params.gs[i - 1], coeffs[i]))

\* The value create_witness((x, y)) returns, or Panic.
create_witness_result(x, y) ==
    IF polynomial = None THEN Err("NoPolynomial")
    ELSE IF 0 \notin DOMAIN polynomial.val.coeffs THEN Panic
    ELSE LET p == polynomial.val
             dividend == [p EXCEPT !.coeffs[0] = FrSub(p.coeffs[0], y)]
             zeros == [i \in 0 .. (MAX_DEGREE - 1) |-> FrZero]
         IN IF 1 \notin DOMAIN zeros THEN Panic
            ELSE LET divisor == new_from_coeffs(
                                    [zeros EXCEPT ![0] = FrNeg(x), ![1] = FrOne], 1)
                     qr == long_division(dividend, divisor)
                 IN IF qr[2] # None THEN Err("PointNotOnPolynomial")
                    ELSE LET psi == qr[1]
                             witness == witness_loop(parameters, psi.coeffs,
                                            Cardinality(DOMAIN psi.coeffs))
                         IN Ok(to_affine(witness))

\* Mutant of create_witness: a returned witness is kept in the cache.
create_witness_caching(x, y) ==
    /\ pc = "ready"
    /\ LET r == create_witness_result(x, y)
       IN /\ ret' = [op |-> "create_witness", args |-> [x |-> x, y |-> y],
                     result |-> r, before |-> Snapshot]
          /\ pc' = IF r = Panic THEN "panicked" ELSE pc
          /\ lastW' = IF r.kind = "Ok" THEN Some([x |-> x, y |-> y, W |-> r.val])
                      ELSE lastW
          /\ witnesses' = IF r.kind = "Ok" THEN [witnesses EXCEPT ![0] = Some(r.val)]
                          ELSE witnesses
    /\ UNCHANGED <<MAX_DEGREE, secret, parameters, polynomial, commitment,
                   batch_witness, lastP, lastC>>

create_witness(x, y) ==
    /\ pc = "ready"
    /\ LET r == create_witness_result(x, y)
       IN /\ ret' = [op |-> "create_witness", args |-> [x |-> x, y |-> y],
                     result |-> r, before |-> Snapshot]
          /\ pc' = IF r = Panic THEN "panicked" ELSE pc
          /\ lastW' = IF r.kind = "Ok" THEN Some([x |-> x, y |-> y, W |-> r.val])
                      ELSE lastW
    /\ UNCHANGED <<MAX_DEGREE, secret, parameters, prover, lastP, lastC>>

(***************************************************************************)
(* KZGVerifier                                                              *)
(***************************************************************************)
\* Mutant of check_loop: the constant term is left out.
RECURSIVE check_loop_no_constant(_, _, _)
check_loop_no_constant(params, coeffs, n) ==
    IF n = 0 THEN G1Identity
    ELSE LET i == n - 1
         IN G1Add(check_loop_no_constant(params, coeffs, i),
                  IF i = 0 THEN G1Identity
                  ELSE G1Mul(params.gs[i - 1], coeffs[i]))

\* verify_poly's accumulation over coeffs[0 .. n-1]
RECURSIVE check_loop(_, _, _)
check_loop(params, coeffs, n) ==
    IF n = 0 THEN G1Identity
    ELSE LET i == n - 1
         IN G1Add(check_loop(params, coeffs, i),
                  IF i = 0 THEN G1Mul(params.g, coeffs[i])
                  ELSE G1Mul(params.gs[i - 1], coeffs[i]))

verify_poly_result(C, q) ==
    to_affine(check_loop(parameters, q.coeffs, Cardinality(DOMAIN q.coeffs))) = C

verify_poly(C, q) ==
    /\ pc = "ready"
    /\ ret' = [op |-> "verify_poly", args |-> [C |-> C, q |-> q],
               result |-> verify_poly_result(C, q), before |-> Snapshot]
    /\ UNCHANGED <<MAX_DEGREE, secret, parameters, prover, lastP, lastC, lastW, pc>>

verify_eval_result(x, y, C, W) ==
    LET lhs == pairing(W, to_affine(G2Add(to_curve(parameters.hs[0]),
                                          G2Mul(parameters.h, FrNeg(x)))))
        rhs == pairing(to_affine(G1Sub(to_curve(C), G1Mul(parameters.g, FrNeg(y)))),
                       parameters.h)
    IN lhs = rhs

verify_eval(x, y, C, W) ==
    /\ pc = "ready"
    /\ ret' = [op |-> "verify_eval", args |-> [x |-> x, y |-> y, C |-> C, W |-> W],
               result |-> verify_eval_result(x, y, C, W), before |-> Snapshot]
    /\ UNCHANGED <<MAX_DEGREE, secret, parameters, prover, lastP, lastC, lastW, pc>>

(***************************************************************************)
(* Specification: one prover and one verifier over the same parameters      *)
(***************************************************************************)
Init ==
    /\ MAX_DEGREE \in 1 .. MaxDegreeBound
    /\ secret \in Fr
    /\ parameters = setup(secret, MAX_DEGREE)
    /\ polynomial = new(MAX_DEGREE).polynomial
    /\ commitment = new(MAX_DEGREE).commitment
    /\ batch_witness = new(MAX_DEGREE).batch_witness
    /\ witnesses = new(MAX_DEGREE).witnesses
    /\ ret = [op |-> "new", args |-> <<>>, result |-> <<>>, before |-> <<>>]
    /\ lastP = None
    /\ lastC = None
    /\ lastW = None
    /\ pc = "ready"

Next ==
    \/ \E p \in Polynomials(MAX_DEGREE) : commit(p)
    \/ open
    \/ \E x \in Fr, y \in Fr : create_witness(x, y)
    \/ \E C \in G1, q \in Polynomials(MAX_DEGREE) : verify_poly(C, q)
    \/ \E x \in Fr, y \in Fr, C \in G1, W \in G1 : verify_eval(x, y, C, W)

Spec == Init /\ [][Next]_vars

(***************************************************************************)
(* Reference notions the properties are stated with.  They are computed     *)
(* from the setup secret and the definition of a polynomial's value, not    *)
(* from the operations above.                                               *)
(***************************************************************************)
RECURSIVE ValueUpTo(_, _, _)
\* the sum of coeffs[i] * x^i for i in 0 .. hi
ValueUpTo(p, x, hi) ==
    IF hi < 0 THEN 0
    ELSE (ValueUpTo(p, x, hi - 1) + p.coeffs[hi] * FrPow(x, hi)) % Modulus

\* p(x)
ValueAt(p, x) == ValueUpTo(p, x, Cardinality(DOMAIN p.coeffs) - 1)

\* g^{p(secret)}
CommitmentOf(p) == G1Mul(G1Generator, ValueAt(p, secret))

RECURSIVE HigherTerms(_, _)
\* prod_{1 <= i <= hi} gs[i-1]^{coeffs[i]}
HigherTerms(p, hi) ==
    IF hi < 1 THEN G1Identity
    ELSE G1Add(HigherTerms(p, hi - 1), G1Mul(parameters.gs[hi - 1], p.coeffs[hi]))

\* g^{coeffs[0]} * prod_{i >= 1} gs[i-1]^{coeffs[i]}
ProductForm(p) ==
    G1Add(G1Mul(parameters.g, p.coeffs[0]),
          HigherTerms(p, Cardinality(DOMAIN p.coeffs) - 1))

Committed == lastP # None

\* C1 (verification half): when create_witness((x, p.eval(x))) has returned a
\* witness W for the committed polynomial p, verify_eval((x, p.eval(x)),
\* commit(p), W) returns true.
C1_WitnessSoundness ==
    (/\ ret.op = "verify_eval"
     /\ Committed
     /\ lastW # None
     /\ ret.args.x = lastW.val.x
     /\ ret.args.y = eval(lastP.val, ret.args.x)
     /\ ret.args.C = lastC.val
     /\ ret.args.W = lastW.val.W)
    => ret.result = TRUE

\* C2: verify_eval((x, y), C, W) returns a boolean, and returns true exactly
\* when e(W, hs[0] * h^{-x}) = e(C * g^{-y}, h).
C2_VerifyEvalEquation ==
    ret.op = "verify_eval"
    => /\ ret.result \in BOOLEAN
       /\ ret.result =
            (pairing(ret.args.W,
                     G2Add(parameters.hs[0], G2Mul(parameters.h, FrNeg(ret.args.x))))
             = pairing(G1Add(ret.args.C, G1Mul(parameters.g, FrNeg(ret.args.y))),
                       parameters.h))

\* C3: on a committed prover create_witness((x, y)) fails with
\* PointNotOnPolynomial when y differs from p.eval(x), and only then.
C3_WitnessRejection ==
    (ret.op = "create_witness" /\ Committed)
    => ((ret.args.y # eval(lastP.val, ret.args.x))
        <=> (ret.result = Err("PointNotOnPolynomial")))

C5_CommitStoresBoth ==
    ret.op = "commit"
    => /\ polynomial = Some(ret.args)
       /\ commitment = Some(ret.result)

\* C6: commit(p) returns g^{coeffs[0]} * prod gs[i-1]^{coeffs[i]}, which is
\* g^{p(secret)}, whatever was committed before.
C6_CommitValue ==
    ret.op = "commit"
    => /\ ret.result = ProductForm(ret.args)
       /\ ret.result = CommitmentOf(ret.args)

C6_Witness ==
    /\ ret.op = "commit"
    /\ MAX_DEGREE >= 2
    /\ secret # FrZero
    /\ ret.args.coeffs[0] # FrZero
    /\ ret.args.coeffs[1] # FrZero
    /\ ret.before.polynomial # None
    /\ ret.before.polynomial # Some(ret.args)
    /\ ret.result = CommitmentOf(ret.args)

\* C7: verify_poly(C, q) returns a boolean, true exactly when C is the
\* commitment of q; so verify_poly(commit(p), p) is true and
\* verify_poly(commit(p), q) is false when the commitments of p and q differ.
C7_VerifyPoly ==
    ret.op = "verify_poly"
    => /\ ret.result \in BOOLEAN
       /\ ret.result = (ret.args.C = CommitmentOf(ret.args.q))
       /\ (Committed /\ ret.args.C = lastC.val)
          => /\ ret.args.q = lastP.val => ret.result = TRUE
             /\ CommitmentOf(ret.args.q) # CommitmentOf(lastP.val)
                => ret.result = FALSE

C7_Witness ==
    /\ ret.op = "verify_poly"
    /\ Committed
    /\ MAX_DEGREE >= 2
    /\ ret.args.C = lastC.val
    /\ ret.args.q = lastP.val
    /\ ret.args.q.coeffs[1] # FrZero
    /\ ret.result = TRUE

\* C8: once a commit has happened, the stored polynomial is the one passed to
\* the most recent commit, open returns it, open and create_witness leave it
\* alone, and create_witness((x, y)) succeeds when y is its value at x and
\* fails with PointNotOnPolynomial otherwise.
C8_MostRecentCommit ==
    Committed
    => /\ polynomial = lastP
       /\ ret.op = "open" => ret.result = Ok(lastP.val)
       /\ ret.op \in {"open", "create_witness"} => polynomial = ret.before.polynomial
       /\ ret.op = "create_witness"
          => IF ret.args.y = eval(lastP.val, ret.args.x)
             THEN ret.result.kind = "Ok"
             ELSE ret.result = Err("PointNotOnPolynomial")

\* The witness create_witness would return now for the point (x, p(x)).
IsWitnessOfStored(W) ==
    /\ polynomial # None
    /\ \E x \in Fr : create_witness_result(x, ValueAt(polynomial.val, x)) = Ok(W)

\* C9: every entry present in the witness cache, and the batch witness when
\* present, is a witness for the polynomial currently committed.
C9_CacheValid ==
    /\ \A i \in DOMAIN witnesses :
          witnesses[i] # None => IsWitnessOfStored(witnesses[i].val)
    /\ batch_witness # None => IsWitnessOfStored(batch_witness.val)

C9_Witness ==
    /\ ret.op = "commit"
    /\ ret.before.polynomial # None
    /\ ret.before.lastW # None
    /\ ~IsWitnessOfStored(ret.before.lastW.val.W)
    /\ \A i \in DOMAIN witnesses : witnesses[i] = None

\* C10: for every degree bound MAX_DEGREE >= 1, commit, create_witness and
\* verify_poly finish with a value or a named error: no call indexes outside
\* an array.
C10_NoOutOfBounds ==
    /\ pc # "panicked"
    /\ ret.op = "create_witness" => ret.result.kind \in {"Ok", "Err"}

====
